---- MODULE Spec2Model ----
(***************************************************************************)
(* State-machine model of server.js, the Express/Mongoose backend of the   *)
(* mini interview platform: process start-up, the middleware chain (auth,  *)
(* validators, asyncHandler, error routing, fallback 404) and the route    *)
(* handlers over the three collections User, Candidate and Interview.      *)
(*                                                                         *)
(* Text values (body fields, query parameters) are sequences of one-       *)
(* character strings, so that lower-casing, substring search, length       *)
(* checks and Number() are computed and not assumed.  A step of the model  *)
(* is one request handled from the first middleware to the response, with  *)
(* one exception: a signup is two steps, User.findOne and user.save(), and  *)
(* waits in `inflight` in between, because what save() does depends on the *)
(* signups that ran in the meantime.  The other handlers that read before  *)
(* they write (POST /api/interviews, .../feedback) are one step: no route  *)
(* deletes a document, and their save() does not depend on what was read.  *)
(*                                                                         *)
(* The routes fall into three groups that share no collection, except that *)
(* interviews refer to candidates: accounts (User), candidates (Candidate) *)
(* and interviews (Interview, and Candidate to refer to).  `workload` is   *)
(* the group the clients of a run use; it is chosen at the start and never *)
(* changes.  /api/health, unmatched routes and unparsable bodies belong to *)
(* every workload.                                                         *)
(***************************************************************************)
EXTENDS Integers, Sequences, FiniteSets, Bags, TLC

VARIABLES
    workload,    \* the group of routes the clients of this run use
    proc,        \* "starting" | "listening" | "exited"
    db,          \* "pending" | "connected" | "failed"  (mongoose.connect)
    exitCode,    \* process exit code, -1 while the process runs
    users,       \* User collection, in insertion order (_id = index)
    candidates,  \* Candidate collection, in insertion order (_id = index)
    interviews,  \* Interview collection, in insertion order (_id = index)
    inflight,    \* bag of signups between User.findOne and user.save()
    last         \* the most recently completed request and what was sent for it

vars == <<workload, proc, db, exitCode, users, candidates, interviews, inflight, last>>

stores == <<users, candidates, interviews>>

\* ------------------------------------------------------------------ bounds

MaxUsers == 2
MaxCandidates == 2
MaxInterviews == 1

\* ------------------------------------------------------- program constants

DefaultLimit == 10
MaxLimit == 100
MinPasswordLen == 6
MinExperience == 0
DuplicateKeyCode == 11000

\* ------------------------------------------------------------- text values

\* req.body.x / req.query.x when the field is not supplied
Absent == <<"undefined">>
\* a supplied JSON value that is not a string (used for body('notes').isString())
NonString == <<"#number">>

Given(v) == v # Absent

Digits == ("0" :> 0) @@ ("1" :> 1) @@ ("2" :> 2) @@ ("3" :> 3) @@ ("4" :> 4)
          @@ ("5" :> 5) @@ ("6" :> 6) @@ ("7" :> 7) @@ ("8" :> 8) @@ ("9" :> 9)

UpperToLower == ("A" :> "a") @@ ("B" :> "b") @@ ("E" :> "e") @@ ("O" :> "o")
                @@ ("Q" :> "q") @@ ("X" :> "x")

\* String.prototype.toLowerCase, character by character
ToLower(s) ==
    [i \in 1..Len(s) |->
        IF s[i] \in DOMAIN UpperToLower THEN UpperToLower[s[i]] ELSE s[i]]

IsDigits(s) == Len(s) > 0 /\ \A i \in 1..Len(s) : s[i] \in DOMAIN Digits

RECURSIVE DigitsValue(_)
DigitsValue(s) ==
    IF Len(s) = 0 THEN 0
    ELSE 10 * DigitsValue(SubSeq(s, 1, Len(s) - 1)) + Digits[s[Len(s)]]

HasSign(s) == Len(s) > 0 /\ s[1] \in {"+", "-"}

\* validator.js isNumeric on integer literals: ^[+-]?[0-9]+$
isNumeric(s) ==
    /\ Given(s)
    /\ IsDigits(IF HasSign(s) THEN Tail(s) ELSE s)

\* JavaScript Number(v): NaN for undefined and for text that is no numeric
\* literal, 0 for the empty string.
Number(s) ==
    IF s = <<>> THEN [nan |-> FALSE, v |-> 0]
    ELSE IF s = Absent \/ ~IsDigits(IF HasSign(s) THEN Tail(s) ELSE s)
         THEN [nan |-> TRUE, v |-> 0]
    ELSE IF s[1] = "-" THEN [nan |-> FALSE, v |-> 0 - DigitsValue(Tail(s))]
    ELSE [nan |-> FALSE, v |-> DigitsValue(IF HasSign(s) THEN Tail(s) ELSE s)]

\* JavaScript `Number(v) || dflt`: NaN and 0 are falsy
NumberOr(s, dflt) ==
    LET n == Number(s) IN IF n.nan \/ n.v = 0 THEN dflt ELSE n.v

Min(a, b) == IF a < b THEN a ELSE b

Abs(n) == IF n < 0 THEN 0 - n ELSE n

\* express-validator notEmpty()
notEmpty(s) == Given(s) /\ s # <<>>

\* express-validator isEmail(), reduced to: one "@", text on both sides
isEmail(s) ==
    /\ Given(s)
    /\ Cardinality({i \in 1..Len(s) : s[i] = "@"}) = 1
    /\ s[1] # "@" /\ s[Len(s)] # "@"

\* express-validator isLength({ min })
isLengthMin(s, n) == Given(s) /\ Len(s) >= n

\* express-validator isMongoId(): ids are numbered, 0 stands for any text that
\* is not 24 hex digits; id k names the k-th document inserted, if there is one
isMongoId(id) == id # 0

\* $regex: q, $options: 'i' for a q without regex metacharacters:
\* case-insensitive substring
RegexMatchI(name, q) ==
    \E i \in 1..(Len(name) - Len(q) + 1) :
        ToLower(SubSeq(name, i, i + Len(q) - 1)) = ToLower(q)

\* ---------------------------------------------------------------- responses

R(status, body, by, json) ==
    [status |-> status, body |-> body, by |-> by, json |-> json]

NoFb == [hasRating |-> FALSE, rating |-> 0, hasNotes |-> FALSE, notes |-> <<>>]

\* `last` before any request has completed
NoLast ==
    [route |-> "none", cls |-> "n/a", sent |-> <<>>, ran |-> FALSE,
     wrote |-> FALSE, tag |-> "", fault |-> "", id |-> 0, arg |-> <<>>,
     arg2 |-> <<>>, limit |-> 0, skip |-> 0, data |-> <<>>, matched |-> <<>>,
     total |-> 0]

\* A completed request: route, the class of its credentials, the responses
\* sent for it in order, whether the route handler ran and whether it wrote.
Done(route, cls, sent, ran, wrote) ==
    [NoLast EXCEPT !.route = route, !.cls = cls, !.sent = sent,
                   !.ran = ran, !.wrote = wrote]

\* ---------------------------------------------------- errors and their routing

MongoDuplicateKey ==
    [name |-> "MongoServerError", code |-> DuplicateKeyCode, status |-> 0,
     message |-> "E11000 duplicate key"]
CastError ==
    [name |-> "CastError", code |-> 0, status |-> 0,
     message |-> "Cast to ObjectId failed"]
MongoBadValue ==
    [name |-> "MongoServerError", code |-> 2, status |-> 0,
     message |-> "skip must be non-negative"]
ValidationError ==
    [name |-> "ValidationError", code |-> 0, status |-> 0,
     message |-> "validation failed"]
BodyParseError ==
    [name |-> "SyntaxError", code |-> 0, status |-> 400,
     message |-> "Unexpected token"]

\* app.use / app.get / app.post calls in the order server.js makes them
Layers ==
    <<"cors", "json", "errorHandler", "health", "signup", "login",
      "createCandidate", "listCandidates", "getCandidate", "createInterview",
      "listInterviews", "feedback", "fallback">>

\* layers registered with four parameters (err, req, res, next)
ErrorLayers == {"errorHandler"}

LayerIndex(name) == CHOOSE i \in 1..Len(Layers) : Layers[i] = name

\* The centralized error responder
errorHandler(err) ==
    IF err.name = "MongoServerError" /\ err.code = DuplicateKeyCode
    THEN R(400, "Duplicate key", "errorHandler", TRUE)
    ELSE R(IF err.status # 0 THEN err.status ELSE 500, err.message,
           "errorHandler", TRUE)

\* Express's built-in last resort: an HTML page, status err.status || 500
finalhandler(err) ==
    R(IF err.status # 0 THEN err.status ELSE 500, err.message,
      "finalhandler", FALSE)

\* next(err) called in layer `from`: Express hands the error to the first
\* error-handling layer registered after `from`, else to its built-in handler.
nextErr(from, err) ==
    IF \E i \in (LayerIndex(from) + 1)..Len(Layers) : Layers[i] \in ErrorLayers
    THEN errorHandler(err)
    ELSE finalhandler(err)

\* asyncHandler(fn): the rejection of fn's promise goes to next
asyncHandler(route, err) == nextErr(route, err)

\* ------------------------------------------------------------------- auth

\* Authorization headers: none, empty, and tokens by scheme, signature, expiry
\* and role claim
Token(scheme, sig, expired, role) ==
    [raw |-> "token", scheme |-> scheme, sig |-> sig, expired |-> expired,
     role |-> role, userId |-> 1]

Headers ==
    {[raw |-> "absent", scheme |-> "", sig |-> "", expired |-> FALSE,
      role |-> "", userId |-> 0],
     [raw |-> "empty", scheme |-> "", sig |-> "", expired |-> FALSE,
      role |-> "", userId |-> 0],
     Token("Bearer", "ok", FALSE, "hr"),
     Token("bare", "ok", FALSE, "hr"),
     Token("Basic", "ok", FALSE, "hr"),
     Token("Bearer", "bad", FALSE, "hr"),
     Token("Bearer", "ok", TRUE, "hr"),
     Token("Bearer", "ok", FALSE, "admin"),
     Token("Bearer", "bad", FALSE, "admin")}

\* jwt.verify(header.replace('Bearer ', ''), JWT_SECRET): the payload, or a throw.
\* 'Bearer ' is stripped, a bare token is left as it is, any other scheme stays
\* in front of the token and makes it malformed.
jwtVerify(h) ==
    IF h.scheme = "Basic" \/ h.sig # "ok" \/ h.expired
    THEN [threw |-> TRUE, role |-> "", userId |-> 0]
    ELSE [threw |-> FALSE, role |-> h.role, userId |-> h.userId]

\* auth without the comparison of payload.role with requiredRole
auth_skipsRole(requiredRole, h) ==
    IF h.raw \in {"absent", "empty"}
    THEN [next |-> FALSE, sent |-> <<R(401, "No token provided", "auth", TRUE)>>,
          userId |-> 0]
    ELSE LET payload == jwtVerify(h) IN
         IF payload.threw
         THEN [next |-> FALSE, sent |-> <<R(401, "Invalid token", "auth", TRUE)>>,
               userId |-> 0]
         ELSE [next |-> TRUE, sent |-> <<>>, userId |-> payload.userId]

\* auth(requiredRole): the response it sends, or next() with req.user set
auth(requiredRole, h) ==
    IF h.raw \in {"absent", "empty"}
    THEN [next |-> FALSE, sent |-> <<R(401, "No token provided", "auth", TRUE)>>,
          userId |-> 0]
    ELSE LET payload == jwtVerify(h) IN
         IF payload.threw
         THEN [next |-> FALSE, sent |-> <<R(401, "Invalid token", "auth", TRUE)>>,
               userId |-> 0]
         ELSE IF payload.role # requiredRole
         THEN [next |-> FALSE, sent |-> <<R(403, "Forbidden", "auth", TRUE)>>,
               userId |-> 0]
         ELSE [next |-> TRUE, sent |-> <<>>, userId |-> payload.userId]

\* checkValidation that sends the 400 and still returns true
checkValidation_goesOn(valid) ==
    IF ~valid
    THEN [ok |-> TRUE, sent |-> <<R(400, "errors", "checkValidation", TRUE)>>]
    ELSE [ok |-> TRUE, sent |-> <<>>]

\* checkValidation(req, res): sends 400 and returns false when a validator failed
checkValidation(valid) ==
    IF ~valid
    THEN [ok |-> FALSE, sent |-> <<R(400, "errors", "checkValidation", TRUE)>>]
    ELSE [ok |-> TRUE, sent |-> <<>>]

\* jwt.sign({ userId, role }, JWT_SECRET, { expiresIn: '8h' })
jwtSign(userId, role) == R(200, "token", "handler", TRUE)

\* bcrypt.hash / bcrypt.compare
bcryptHash(password) == [bcrypt |-> password]
bcryptCompare(password, hash) == hash.bcrypt = password

\* ------------------------------------------------------------ request inputs

E_a == <<"a", "@", "x">>
E_A == <<"A", "@", "X">>
E_b == <<"b", "@", "x">>
E_bad == <<"a", "x">>
Emails == {E_a, E_A, E_b, E_bad}

P_secret == <<"s", "e", "c", "r", "e", "t", "1">>
P_wrong == <<"w", "r", "o", "n", "g", "2", "2">>
P_short == <<"a", "b", "c">>

SignupBodies ==
    [name : {<<"A">>, <<>>}, email : Emails, password : {P_secret, P_short}]

LoginBodies == [email : Emails, password : {P_secret, P_wrong, <<>>}]

\* The class of a request's credentials, read off the header itself
Class(h) ==
    CASE h.raw \in {"absent", "empty"} -> "missing"
      [] h.scheme = "Basic" \/ h.sig # "ok" \/ h.expired -> "invalid"
      [] h.role # "hr" -> "forbidden"
      [] OTHER -> "ok"

\* A signup between User.findOne and user.save()
NoCont ==
    [route |-> "none", sent |-> <<>>, name |-> <<>>, email |-> <<>>,
     password |-> <<>>]

Clients == {"c1", "c2"}

\* one outstanding request per client connection
CanSuspend == BagCardinality(inflight) < Cardinality(Clients)

Suspend(c) == inflight' = inflight (+) SetToBag({c})
Resume(c) == inflight' = inflight (-) SetToBag({c})

\* -------------------------------------------------------------------- store

\* userSchema: email { lowercase: true } is applied when a document is built
\* and when a query condition on email is cast
castEmail(email) == ToLower(email)

\* User.findOne({ email }): the _id of the first match, 0 for null
UserFindOne(email) ==
    LET hit == {i \in 1..Len(users) : users[i].email = castEmail(email)}
    IN IF hit = {} THEN 0 ELSE CHOOSE i \in hit : \A j \in hit : i <= j

\* user.save() on a collection whose email index is not unique
UserSave_noIndex(doc) ==
    [err |-> FALSE, error |-> MongoDuplicateKey, users |-> Append(users, doc)]

\* user.save(): the unique index on email refuses a second document with the
\* same stored email
UserSave(doc) ==
    IF \E i \in 1..Len(users) : users[i].email = doc.email
    THEN [err |-> TRUE, error |-> MongoDuplicateKey, users |-> users]
    ELSE [err |-> FALSE, error |-> MongoDuplicateKey, users |-> Append(users, doc)]

\* new User({ name, email, passwordHash })
NewUser(name, email, passwordHash) ==
    [name |-> name, email |-> castEmail(email), passwordHash |-> passwordHash,
     role |-> "hr"]

\* ------------------------------------------------------------------ start-up

Workloads == {"accounts", "candidates", "interviews"}

Init ==
    /\ workload \in Workloads
    /\ proc = "starting"
    /\ db = "pending"
    /\ exitCode = -1
    /\ users = <<>>
    /\ candidates = <<>>
    /\ interviews = <<>>
    /\ inflight = EmptyBag
    /\ last = NoLast

\* mongoose.connect(...).then(() => app.listen(PORT))
StartupThen ==
    /\ proc = "starting" /\ db = "pending"
    /\ db' = "connected"
    /\ proc' = "listening"
    /\ UNCHANGED <<workload, exitCode, users, candidates, interviews, inflight,
                   last>>

\* a catch that logs the error and lets the server start all the same
StartupCatch_keepsServing ==
    /\ proc = "starting" /\ db = "pending"
    /\ db' = "failed"
    /\ proc' = "listening"
    /\ UNCHANGED <<workload, exitCode, users, candidates, interviews, inflight,
                   last>>

\* mongoose.connect(...).catch(err => process.exit(1))
StartupCatch ==
    /\ proc = "starting" /\ db = "pending"
    /\ db' = "failed"
    /\ proc' = "exited"
    /\ exitCode' = 1
    /\ UNCHANGED <<workload, users, candidates, interviews, inflight, last>>

\* A request is taken only by a listening process
Serving == proc = "listening"

\* a request of group g arrives
Arrives(g) == Serving /\ workload = g

Keep == UNCHANGED <<workload, proc, db, exitCode>>

\* ------------------------------------------------------- unprotected routes

\* GET /api/health
Health ==
    /\ Serving
    /\ last' = Done("health", "n/a", <<R(200, "ok", "handler", TRUE)>>, TRUE, FALSE)
    /\ Keep /\ UNCHANGED <<users, candidates, interviews, inflight>>

\* any request no route matches
Fallback404 ==
    /\ Serving
    /\ last' = Done("fallback", "n/a", <<R(404, "Not found", "fallback", TRUE)>>,
                    FALSE, FALSE)
    /\ Keep /\ UNCHANGED <<users, candidates, interviews, inflight>>

\* a request whose JSON body does not parse: express.json() calls next(err)
MalformedBody ==
    /\ Serving
    /\ last' = [Done("json", "n/a", <<nextErr("json", BodyParseError)>>,
                     FALSE, FALSE) EXCEPT !.fault = BodyParseError.name]
    /\ Keep /\ UNCHANGED <<users, candidates, interviews, inflight>>

\* POST /api/auth/signup, up to and including User.findOne
SignupBegin ==
    /\ Arrives("accounts")
    /\ \E b \in SignupBodies :
        LET cv == checkValidation(/\ notEmpty(b.name)
                                  /\ isEmail(b.email)
                                  /\ isLengthMin(b.password, MinPasswordLen))
            taken == \E i \in 1..Len(users) : users[i].email = ToLower(b.email)
            fin(sent) == [Done("signup", "n/a", sent, TRUE, FALSE)
                            EXCEPT !.tag = IF taken THEN "taken" ELSE "free"]
        IN IF ~cv.ok
           THEN /\ last' = [fin(cv.sent) EXCEPT !.tag = "invalid"]
                /\ UNCHANGED inflight
           ELSE IF UserFindOne(b.email) # 0
           THEN /\ last' = fin(cv.sent \o
                     <<R(400, "Email already registered", "handler", TRUE)>>)
                /\ UNCHANGED inflight
           ELSE /\ CanSuspend /\ Len(users) < MaxUsers
                /\ Suspend([NoCont EXCEPT !.route = "signup", !.sent = cv.sent,
                              !.name = b.name, !.email = b.email,
                              !.password = b.password])
                /\ UNCHANGED last
    /\ Keep /\ UNCHANGED <<users, candidates, interviews>>

\* POST /api/auth/signup, from bcrypt.hash to the response
SignupSave ==
    /\ \E c \in BagToSet(inflight) :
        /\ c.route = "signup"
        /\ Resume(c)
        /\ LET taken == \E i \in 1..Len(users) : users[i].email = ToLower(c.email)
               user == NewUser(c.name, c.email, bcryptHash(c.password))
               saved == UserSave(user)
               fin(sent, wrote) ==
                   [Done("signup", "n/a", sent, TRUE, wrote)
                      EXCEPT !.tag = IF taken THEN "taken" ELSE "free"]
           IN IF saved.err
              THEN /\ users' = users
                   /\ last' = [fin(c.sent \o <<asyncHandler("signup", saved.error)>>,
                                   FALSE) EXCEPT !.fault = saved.error.name]
              ELSE /\ users' = saved.users
                   /\ last' = fin(c.sent \o <<jwtSign(Len(saved.users), user.role)>>,
                                  TRUE)
    /\ Keep /\ UNCHANGED <<candidates, interviews>>

\* a login that tells an unknown email from a wrong password
LoginResponse_leaky(user, password) ==
    IF user = 0
    THEN R(404, "User not found", "handler", TRUE)
    ELSE IF ~bcryptCompare(password, users[user].passwordHash)
    THEN R(401, "Invalid credentials", "handler", TRUE)
    ELSE jwtSign(user, users[user].role)

\* POST /api/auth/login after checkValidation: what the handler sends for the
\* user findOne returned (0 for null) and the password of the body
LoginResponse(user, password) ==
    IF user = 0
    THEN R(401, "Invalid credentials", "handler", TRUE)
    ELSE IF ~bcryptCompare(password, users[user].passwordHash)
    THEN R(401, "Invalid credentials", "handler", TRUE)
    ELSE jwtSign(user, users[user].role)

\* POST /api/auth/login
Login ==
    /\ Arrives("accounts")
    /\ \E b \in LoginBodies :
        LET cv == checkValidation(isEmail(b.email) /\ notEmpty(b.password))
            known == {i \in 1..Len(users) : users[i].email = ToLower(b.email)}
            tag == IF ~(isEmail(b.email) /\ notEmpty(b.password)) THEN "invalid"
                   ELSE IF known = {} THEN "nouser"
                   ELSE IF \A i \in known :
                            users[i].passwordHash # bcryptHash(b.password)
                        THEN "badpw" ELSE "match"
            fin(sent) == [Done("login", "n/a", sent, TRUE, FALSE) EXCEPT !.tag = tag]
            user == UserFindOne(b.email)
        IN IF ~cv.ok THEN last' = fin(cv.sent)
           ELSE last' = fin(cv.sent \o <<LoginResponse(user, b.password)>>)
    /\ Keep /\ UNCHANGED <<users, candidates, interviews, inflight>>

\* ---------------------------------------------------------------- candidates

N_Bob == <<"B", "o", "b">>
N_al == <<"a", "l">>
T_Eng == <<"E", "n", "g">>
T_QA == <<"Q", "A">>

CandidateBodies ==
    {[name |-> N_Bob, role |-> T_Eng, experience |-> <<"3">>, rating |-> Absent,
      notes |-> Absent],
     [name |-> N_al, role |-> T_QA, experience |-> <<"0">>, rating |-> Absent,
      notes |-> Absent],
     [name |-> N_Bob, role |-> T_Eng, experience |-> <<"-", "1">>,
      rating |-> Absent, notes |-> Absent],
     [name |-> N_Bob, role |-> T_Eng, experience |-> <<"a", "b", "c">>,
      rating |-> Absent, notes |-> Absent],
     [name |-> N_Bob, role |-> T_Eng, experience |-> Absent, rating |-> Absent,
      notes |-> Absent],
     [name |-> <<>>, role |-> T_Eng, experience |-> <<"3">>, rating |-> Absent,
      notes |-> Absent],
     [name |-> N_al, role |-> <<>>, experience |-> <<"0">>, rating |-> <<"4">>,
      notes |-> <<"o", "k">>]}

\* what the clients of a workload post to /api/candidates: the interviews
\* workload creates candidates only to refer to them
CandidateBodiesOf(w) ==
    IF w = "interviews"
    THEN {b \in CandidateBodies : b.name = N_Bob /\ b.experience = <<"3">>}
    ELSE CandidateBodies

\* const { ..., rating = 0, notes = '' } = req.body and
\* new Candidate({ name, role, experience: Number(experience), ... })
NewCandidate(b, userId) ==
    [name |-> b.name, role |-> b.role, experience |-> Number(b.experience),
     rating |-> IF Given(b.rating) THEN Number(b.rating)
                ELSE [nan |-> FALSE, v |-> 0],
     notes |-> IF Given(b.notes) THEN b.notes ELSE <<>>,
     createdBy |-> userId]

\* candidateSchema as checked by candidate.save(): required fields, numbers that
\* cast, experience { min: 0 }
CandidateSchemaOk(doc) ==
    /\ doc.name # <<>> /\ doc.role # <<>>
    /\ ~doc.experience.nan /\ ~doc.rating.nan
    /\ doc.experience.v >= MinExperience

\* candidate.save()
CandidateSave(doc) ==
    IF ~CandidateSchemaOk(doc)
    THEN [err |-> TRUE, error |-> ValidationError, candidates |-> candidates]
    ELSE [err |-> FALSE, error |-> ValidationError,
          candidates |-> Append(candidates,
              [name |-> doc.name, role |-> doc.role,
               experience |-> doc.experience.v, rating |-> doc.rating.v,
               notes |-> doc.notes, createdBy |-> doc.createdBy])]

\* POST /api/candidates
CreateCandidate ==
    /\ Serving /\ workload \in {"candidates", "interviews"}
    /\ \E h \in Headers :
        LET a == auth("hr", h) IN
        IF ~a.next
        THEN /\ last' = Done("createCandidate", Class(h), a.sent, FALSE, FALSE)
             /\ UNCHANGED candidates
        ELSE \E b \in CandidateBodiesOf(workload) :
             LET fin(sent, ran, wrote) ==
                    [Done("createCandidate", Class(h), sent, ran, wrote)
                        EXCEPT !.arg = b.experience,
                               !.tag = IF notEmpty(b.name) /\ notEmpty(b.role)
                                       THEN "named" ELSE "unnamed"]
                 cv == checkValidation(/\ notEmpty(b.name)
                                          /\ notEmpty(b.role)
                                          /\ isNumeric(b.experience))
                 saved == CandidateSave(NewCandidate(b, a.userId))
             IN    IF ~cv.ok
                   THEN last' = fin(cv.sent, TRUE, FALSE) /\ UNCHANGED candidates
                   ELSE IF saved.err
                   THEN /\ last' = [fin(cv.sent \o
                               <<asyncHandler("createCandidate", saved.error)>>,
                               TRUE, FALSE) EXCEPT !.fault = saved.error.name]
                        /\ UNCHANGED candidates
                   ELSE /\ Len(candidates) < MaxCandidates
                        /\ candidates' = saved.candidates
                        /\ last' = [fin(cv.sent \o
                               <<R(201, "candidate", "handler", TRUE)>>, TRUE, TRUE)
                               EXCEPT !.id = Len(saved.candidates)]
    /\ Keep /\ UNCHANGED <<users, interviews, inflight>>

\* GET /api/candidates/:id
GetCandidate ==
    /\ Arrives("candidates")
    /\ \E h \in Headers :
        LET a == auth("hr", h) IN
        IF ~a.next
        THEN last' = Done("getCandidate", Class(h), a.sent, FALSE, FALSE)
        ELSE \E id \in 0..MaxCandidates :
             LET fin(sent, ran) ==
                    [Done("getCandidate", Class(h), sent, ran, FALSE)
                        EXCEPT !.id = id]
                 cv == checkValidation(isMongoId(id))
             IN IF ~cv.ok THEN last' = fin(cv.sent, TRUE)
                ELSE IF id \notin 1..Len(candidates)
                THEN last' = fin(cv.sent \o
                        <<R(404, "Candidate not found", "handler", TRUE)>>, TRUE)
                ELSE last' = fin(cv.sent \o
                        <<R(200, "candidate", "handler", TRUE)>>, TRUE)
    /\ Keep /\ UNCHANGED <<users, candidates, interviews, inflight>>

\* ------------------------------------------------------------ list endpoints

\* (page, limit) of the query string
Pagings ==
    {[page |-> Absent, limit |-> Absent],
     [page |-> <<"2">>, limit |-> <<"1">>],
     [page |-> Absent, limit |-> <<"a", "l", "l">>],
     [page |-> Absent, limit |-> <<"5", "0", "0">>],
     [page |-> <<"0">>, limit |-> <<"0">>],
     [page |-> Absent, limit |-> <<"-", "2">>],
     [page |-> <<"2">>, limit |-> <<"a", "b", "c">>],
     [page |-> <<"-", "1">>, limit |-> <<"1">>]}

CandidateFilters ==
    {[q |-> Absent, role |-> Absent, minExp |-> Absent],
     [q |-> <<"B", "O">>, role |-> Absent, minExp |-> Absent],
     [q |-> Absent, role |-> T_QA, minExp |-> Absent],
     [q |-> <<>>, role |-> <<>>, minExp |-> <<"1">>]}

\* the filter object built from q, role and minExp (each used only when truthy)
CandidateMatches(c, f) ==
    /\ notEmpty(f.q) => RegexMatchI(c.name, f.q)
    /\ notEmpty(f.role) => c.role = f.role
    /\ notEmpty(f.minExp) => c.experience >= Number(f.minExp).v

\* page = Number(page) || 1
PageOf(page) == NumberOr(page, 1)

\* limit = Math.min(Number(limit) || 10, 100)
LimitOf(limit) == Min(NumberOr(limit, DefaultLimit), MaxLimit)

\* skip = (page - 1) * limit
SkipOf(page, limit) == (page - 1) * limit

\* query.skip(skip).limit(limit) on the sorted matches: the driver sends a
\* negative limit as its absolute value, the server refuses a negative skip
SkipLimit(sorted, skip, limit) ==
    IF skip < 0
    THEN [err |-> TRUE, error |-> MongoBadValue, data |-> <<>>]
    ELSE [err |-> FALSE, error |-> MongoBadValue,
          data |-> SubSeq(sorted, skip + 1, Min(Len(sorted), skip + Abs(limit)))]

\* .sort({ createdAt: -1 }): newest first, which is insertion order reversed
RECURSIVE Descending(_)
Descending(ids) ==
    IF ids = {} THEN <<>>
    ELSE LET m == CHOOSE i \in ids : \A j \in ids : j <= i
         IN <<m>> \o Descending(ids \ {m})

\* Candidate.find(filter).sort({ createdAt: -1 })
CandidateFind(f) ==
    Descending({i \in 1..Len(candidates) : CandidateMatches(candidates[i], f)})

\* Candidate.countDocuments(filter)
CandidateCount(f) ==
    Cardinality({i \in 1..Len(candidates) : CandidateMatches(candidates[i], f)})

\* The part of both list handlers after the query is built: limit === 'all',
\* or the page of the sorted matches together with the count
ListResponse(route, cls, sent, sorted, count, pg) ==
    IF pg.limit = <<"a", "l", "l">>
    THEN [Done(route, cls, sent \o <<R(200, "list", "handler", TRUE)>>, TRUE, FALSE)
            EXCEPT !.tag = "all", !.data = sorted, !.matched = sorted,
                   !.total = Len(sorted), !.arg = pg.limit, !.arg2 = pg.page]
    ELSE LET page == PageOf(pg.page)
             limit == LimitOf(pg.limit)
             skip == SkipOf(page, limit)
             got == SkipLimit(sorted, skip, limit)
         IN IF got.err
            THEN [Done(route, cls, sent \o <<asyncHandler(route, got.error)>>,
                       TRUE, FALSE)
                    EXCEPT !.tag = "paged", !.fault = got.error.name,
                           !.limit = limit, !.skip = skip, !.matched = sorted,
                           !.arg = pg.limit, !.arg2 = pg.page]
            ELSE [Done(route, cls, sent \o <<R(200, "list", "handler", TRUE)>>,
                       TRUE, FALSE)
                    EXCEPT !.tag = "paged", !.limit = limit, !.skip = skip,
                           !.data = got.data, !.matched = sorted,
                           !.total = count, !.arg = pg.limit, !.arg2 = pg.page]

\* GET /api/candidates
ListCandidates ==
    /\ Arrives("candidates")
    /\ \E h \in Headers :
        LET a == auth("hr", h) IN
        IF ~a.next
        THEN last' = Done("listCandidates", Class(h), a.sent, FALSE, FALSE)
        ELSE \E f \in CandidateFilters, pg \in Pagings :
             last' = ListResponse("listCandidates", Class(h), <<>>,
                                  CandidateFind(f), CandidateCount(f), pg)
    /\ Keep /\ UNCHANGED <<users, candidates, interviews, inflight>>

\* ---------------------------------------------------------------- interviews

D_1 == <<"1">>
D_2 == <<"2">>
I_Q == <<"Q">>
M_onsite == <<"o", "n", "s", "i", "t", "e">>
M_remote == <<"r", "e", "m", "o", "t", "e">>

\* bodies of POST /api/interviews for candidate id k
InterviewBodies(k) ==
    {[candidate |-> k, date |-> D_1, interviewer |-> I_Q, mode |-> Absent],
     [candidate |-> k, date |-> D_2, interviewer |-> I_Q, mode |-> M_onsite],
     [candidate |-> k, date |-> <<>>, interviewer |-> I_Q, mode |-> Absent],
     [candidate |-> k, date |-> <<"x">>, interviewer |-> I_Q, mode |-> Absent],
     [candidate |-> k, date |-> D_1, interviewer |-> <<>>, mode |-> M_remote],
     [candidate |-> k, date |-> D_1, interviewer |-> I_Q, mode |-> <<"x">>]}

\* new Date(date): a day number for a date string, Invalid Date otherwise
NewDate(s) ==
    IF IsDigits(s) THEN [invalid |-> FALSE, t |-> DigitsValue(s)]
    ELSE [invalid |-> TRUE, t |-> 0]

\* a lookup that takes every well-formed id for a stored candidate
CandidateFindById_any(id) == id

\* Candidate.findById(id): the _id, 0 for null
CandidateFindById(id) == IF id \in 1..Len(candidates) THEN id ELSE 0

\* Interview.findById(id): the _id, 0 for null
InterviewFindById(id) == IF id \in 1..Len(interviews) THEN id ELSE 0

\* const { ..., mode = 'remote' } = req.body and
\* new Interview({ candidate, date: new Date(date), interviewer, mode, createdBy })
NewInterview(b, userId) ==
    [candidate |-> b.candidate, date |-> NewDate(b.date),
     interviewer |-> b.interviewer,
     mode |-> IF Given(b.mode) THEN b.mode ELSE M_remote,
     feedback |-> NoFb, createdBy |-> userId]

\* interviewSchema as checked by iv.save()
InterviewSchemaOk(doc) ==
    /\ doc.candidate # 0
    /\ ~doc.date.invalid
    /\ doc.interviewer # <<>>
    /\ doc.mode \in {M_onsite, M_remote}

\* iv.save() of a new interview
InterviewSave(doc) ==
    IF ~InterviewSchemaOk(doc)
    THEN [err |-> TRUE, error |-> ValidationError, interviews |-> interviews]
    ELSE [err |-> FALSE, error |-> ValidationError,
          interviews |-> Append(interviews,
              [candidate |-> doc.candidate, date |-> doc.date.t,
               interviewer |-> doc.interviewer, mode |-> doc.mode,
               feedback |-> doc.feedback, createdBy |-> doc.createdBy])]

\* POST /api/interviews
CreateInterview ==
    /\ Arrives("interviews")
    /\ \E h \in Headers :
        LET a == auth("hr", h) IN
        IF ~a.next
        THEN /\ last' = Done("createInterview", Class(h), a.sent, FALSE, FALSE)
             /\ UNCHANGED interviews
        ELSE \E k \in 0..MaxCandidates : \E b \in InterviewBodies(k) :
             LET cv == checkValidation(
                          /\ isMongoId(b.candidate)
                          /\ notEmpty(b.date)
                          /\ notEmpty(b.interviewer)
                          /\ Given(b.mode) => b.mode \in {M_onsite, M_remote})
                 saved == InterviewSave(NewInterview(b, a.userId))
                 fin(sent, wrote) ==
                    [Done("createInterview", Class(h), sent, TRUE, wrote)
                        EXCEPT !.id = b.candidate]
             IN IF ~cv.ok
                THEN /\ last' = [fin(cv.sent, FALSE) EXCEPT !.tag = "invalid"]
                     /\ UNCHANGED interviews
                ELSE IF CandidateFindById(b.candidate) = 0
                THEN /\ last' = fin(cv.sent \o
                            <<R(404, "Candidate not found", "handler", TRUE)>>,
                            FALSE)
                     /\ UNCHANGED interviews
                ELSE IF saved.err
                THEN /\ last' = [fin(cv.sent \o
                            <<asyncHandler("createInterview", saved.error)>>,
                            FALSE) EXCEPT !.fault = saved.error.name]
                     /\ UNCHANGED interviews
                ELSE /\ Len(interviews) < MaxInterviews
                     /\ interviews' = saved.interviews
                     /\ last' = fin(cv.sent \o
                            <<R(201, "interview", "handler", TRUE)>>, TRUE)
    /\ Keep /\ UNCHANGED <<users, candidates, inflight>>

\* ----------------------------------------------------------------- feedback

F_ok == <<"o", "k">>

FeedbackBodies ==
    {[rating |-> <<"4">>, notes |-> Absent],
     [rating |-> Absent, notes |-> F_ok],
     [rating |-> Absent, notes |-> Absent],
     [rating |-> <<"x">>, notes |-> F_ok],
     [rating |-> <<"4">>, notes |-> NonString]}

\* feedback built on the stored sub-object instead of on {}
BuildFeedback_merge(old, rating, notes) ==
    [hasRating |-> old.hasRating \/ rating # Absent,
     rating |-> IF rating # Absent THEN Number(rating).v ELSE old.rating,
     hasNotes |-> old.hasNotes \/ notes # Absent,
     notes |-> IF notes # Absent THEN notes ELSE old.notes]

\* iv.feedback = {}; then rating and notes are copied when the body has them
BuildFeedback(old, rating, notes) ==
    [hasRating |-> rating # Absent,
     rating |-> IF rating # Absent THEN Number(rating).v ELSE 0,
     hasNotes |-> notes # Absent,
     notes |-> IF notes # Absent THEN notes ELSE <<>>]

\* POST /api/interviews/:id/feedback; save() writes the feedback path
Feedback ==
    /\ Arrives("interviews")
    /\ \E h \in Headers :
        LET a == auth("hr", h) IN
        IF ~a.next
        THEN /\ last' = Done("feedback", Class(h), a.sent, FALSE, FALSE)
             /\ UNCHANGED interviews
        ELSE \E id \in 0..MaxInterviews, b \in FeedbackBodies :
             LET cv == checkValidation(
                          /\ isMongoId(id)
                          /\ Given(b.rating) => isNumeric(b.rating)
                          /\ Given(b.notes) => b.notes # NonString)
                 iv == InterviewFindById(id)
                 fin(sent, wrote) ==
                    [Done("feedback", Class(h), sent, TRUE, wrote)
                        EXCEPT !.id = id, !.arg = b.rating, !.arg2 = b.notes]
             IN IF ~cv.ok
                THEN /\ last' = [fin(cv.sent, FALSE) EXCEPT !.tag = "invalid"]
                     /\ UNCHANGED interviews
                ELSE IF iv = 0
                THEN /\ last' = fin(cv.sent \o
                            <<R(404, "Interview not found", "handler", TRUE)>>,
                            FALSE)
                     /\ UNCHANGED interviews
                ELSE /\ interviews' =
                          [interviews EXCEPT ![iv].feedback =
                              BuildFeedback(interviews[iv].feedback,
                                            b.rating, b.notes)]
                     /\ last' = [fin(cv.sent \o
                            <<R(200, "interview", "handler", TRUE)>>, TRUE)
                            EXCEPT !.tag =
                                IF interviews[iv].feedback.hasRating
                                THEN "hadRating"
                                ELSE IF interviews[iv].feedback.hasNotes
                                THEN "hadNotes" ELSE "fresh"]
    /\ Keep /\ UNCHANGED <<users, candidates, inflight>>

\* ------------------------------------------------------------ list interviews

\* candidateId of the query string: -1 when not supplied, 0 for text that is
\* no ObjectId
CandidateIdParams == {-1, 0, 1}

InterviewPagings ==
    {pg \in Pagings : pg.limit \in {Absent, <<"1">>, <<"a", "l", "l">>, <<"-", "2">>}}

\* .sort({ date: -1 }): latest date first; equal dates in insertion order
RECURSIVE ByDateDesc(_)
ByDateDesc(ids) ==
    IF ids = {} THEN <<>>
    ELSE LET m == CHOOSE i \in ids :
                    \A j \in ids : \/ interviews[j].date < interviews[i].date
                                   \/ /\ interviews[j].date = interviews[i].date
                                      /\ i <= j
         IN <<m>> \o ByDateDesc(ids \ {m})

\* .populate('candidate'): the reference replaced by the candidate document
Populate(ids) ==
    [n \in 1..Len(ids) |->
        [id |-> ids[n],
         candidate |-> candidates[interviews[ids[n]].candidate]]]

InterviewMatches(iv, candidateId) ==
    candidateId > 0 => iv.candidate = candidateId

\* Interview.find(filter).populate('candidate').sort({ date: -1 })
InterviewFind(candidateId) ==
    Populate(ByDateDesc({i \in 1..Len(interviews) :
                            InterviewMatches(interviews[i], candidateId)}))

\* Interview.countDocuments(filter)
InterviewCount(candidateId) ==
    Cardinality({i \in 1..Len(interviews) :
                    InterviewMatches(interviews[i], candidateId)})

\* GET /api/interviews
ListInterviews ==
    /\ Arrives("interviews")
    /\ \E h \in Headers :
        LET a == auth("hr", h) IN
        IF ~a.next
        THEN last' = Done("listInterviews", Class(h), a.sent, FALSE, FALSE)
        ELSE \E cid \in CandidateIdParams, pg \in InterviewPagings :
             IF cid = 0
             THEN last' = [Done("listInterviews", Class(h),
                                <<asyncHandler("listInterviews", CastError)>>,
                                TRUE, FALSE)
                             EXCEPT !.fault = CastError.name, !.tag = "cast"]
             ELSE last' = ListResponse("listInterviews", Class(h), <<>>,
                              InterviewFind(cid), InterviewCount(cid), pg)
    /\ Keep /\ UNCHANGED <<users, candidates, interviews, inflight>>

Next ==
    \/ StartupThen
    \/ StartupCatch
    \/ Health
    \/ Fallback404
    \/ MalformedBody
    \/ SignupBegin
    \/ SignupSave
    \/ Login
    \/ CreateCandidate
    \/ GetCandidate
    \/ ListCandidates
    \/ CreateInterview
    \/ Feedback
    \/ ListInterviews

Spec == Init /\ [][Next]_vars

\* ------------------------------------------------------------------ claims

ProtectedRoutes ==
    {"createCandidate", "listCandidates", "getCandidate", "createInterview",
     "listInterviews", "feedback"}

ListRoutes == {"listCandidates", "listInterviews"}

\* what a request with credentials of class cls is to be answered
AuthRejection(cls) ==
    CASE cls = "missing" -> R(401, "No token provided", "auth", TRUE)
      [] cls = "invalid" -> R(401, "Invalid token", "auth", TRUE)
      [] cls = "forbidden" -> R(403, "Forbidden", "auth", TRUE)

Answered(status, body) ==
    /\ Len(last.sent) = 1
    /\ last.sent[1].status = status
    /\ last.sent[1].body = body

C1_Rejected ==
    (last.route \in ProtectedRoutes /\ last.cls # "ok")
        => /\ last.sent = <<AuthRejection(last.cls)>>
           /\ ~last.ran

C1_StoreKept ==
    (last'.route \in ProtectedRoutes /\ last'.cls # "ok") => UNCHANGED stores

\* C1: on every protected route the handler runs only for a validly signed,
\* unexpired token with role "hr"; any other request is answered 401 "No token
\* provided", 401 "Invalid token" or 403 "Forbidden" according to its
\* credentials, and the step that answers it changes no collection.
C1_AuthGate == [] C1_Rejected /\ [][C1_StoreKept]_vars

\* C1 witness: a token with another role was refused on the feedback route
\* while an interview was stored.
C1_Witness ==
    /\ last.route = "feedback" /\ last.cls = "forbidden"
    /\ Answered(403, "Forbidden")
    /\ Len(interviews) > 0

C2_Unique ==
    \A i, j \in 1..Len(users) :
        i # j => ToLower(users[i].email) # ToLower(users[j].email)

C2_TakenRejected ==
    (last.route = "signup" /\ last.tag = "taken")
        => /\ Len(last.sent) = 1
           /\ last.sent[1].status >= 400
           /\ last.sent[1].body # "token"

C2_TakenKept ==
    (last'.route = "signup" /\ last'.tag = "taken") => users' = users

\* C2: whatever the interleaving of signups, no two stored users have the same
\* lower-cased email, and a signup whose email is stored already (up to letter
\* case) when it is answered gets an error response, no token, and adds no user.
C2_UniqueEmails == [] (C2_Unique /\ C2_TakenRejected) /\ [][C2_TakenKept]_vars

\* C2 witness: two signups passed findOne before either saved; the second
\* save was refused by the index and one user is stored.
C2_Witness ==
    /\ last.route = "signup" /\ last.tag = "taken"
    /\ last.fault = "MongoServerError"
    /\ Len(users) = 1

C3_Resolves ==
    \A i \in 1..Len(interviews) : interviews[i].candidate \in 1..Len(candidates)

C3_NotFound ==
    (/\ last.route = "createInterview" /\ last.cls = "ok"
     /\ last.tag # "invalid"
     /\ last.id \notin 1..Len(candidates))
        => /\ last.sent = <<R(404, "Candidate not found", "handler", TRUE)>>
           /\ ~last.wrote

C3_NothingSaved ==
    (last'.route = "createInterview" /\ last'.id \notin 1..Len(candidates'))
        => interviews' = interviews

\* C3: POST /api/interviews with a valid body whose candidate id resolves to no
\* stored candidate is answered 404 "Candidate not found" and stores nothing;
\* every stored interview refers to a stored candidate.
C3_CandidateResolves ==
    [] (C3_Resolves /\ C3_NotFound) /\ [][C3_NothingSaved]_vars

\* C3 witness: with an interview stored, a further POST /api/interviews named
\* a candidate id that does not resolve and was answered 404.
C3_Witness ==
    /\ last.route = "createInterview" /\ last.cls = "ok"
    /\ Answered(404, "Candidate not found")
    /\ last.id > Len(candidates)
    /\ Len(interviews) = 1

\* C4: after a successful feedback call the stored feedback of that interview
\* has exactly the fields the call supplied, with the call's values: rating
\* iff rating was supplied, notes iff notes was supplied.
C4_FeedbackReplaced ==
    (last.route = "feedback" /\ last.wrote)
        => LET f == interviews[last.id].feedback IN
           /\ f.hasRating = (last.arg # Absent)
           /\ f.hasRating => f.rating = Number(last.arg).v
           /\ ~f.hasRating => f.rating = 0
           /\ f.hasNotes = (last.arg2 # Absent)
           /\ f.hasNotes => f.notes = last.arg2
           /\ ~f.hasNotes => f.notes = <<>>

\* C4 witness: feedback with a rating was stored, then a call supplied notes
\* only, and the stored feedback has the notes and no rating.
C4_Witness ==
    /\ last.route = "feedback" /\ last.wrote /\ last.tag = "hadRating"
    /\ last.arg = Absent /\ last.arg2 = F_ok
    /\ ~interviews[last.id].feedback.hasRating
    /\ interviews[last.id].feedback.notes = F_ok

\* C5: an authenticated POST /api/candidates with name and role and experience
\* -1 is answered 400 and stores nothing, experience 0 is answered 201, and
\* every stored candidate has experience >= 0.
C5_NegativeExperience400 ==
    /\ \A i \in 1..Len(candidates) : candidates[i].experience >= 0
    /\ (last.route = "createCandidate" /\ last.cls = "ok" /\ last.tag = "named")
        => /\ last.arg = <<"-", "1">> =>
                (Len(last.sent) = 1 /\ last.sent[1].status = 400 /\ ~last.wrote)
           /\ last.arg = <<"0">> => Answered(201, "candidate")

\* C6: every fault passed on by asyncHandler is answered by the centralized
\* error responder, in JSON: 400 "Duplicate key" for a duplicate key, the
\* fault's own status or 500 for any other.
C6_CentralResponder ==
    last.fault # ""
        => /\ Len(last.sent) = 1
           /\ last.sent[1].by = "errorHandler"
           /\ last.sent[1].json
           /\ (last.fault = "MongoServerError" /\ last.tag = "taken")
                => Answered(400, "Duplicate key")

\* C7: on both list endpoints, when limit is not "all", the effective limit is
\* in 1..100 (10 when absent, 100 for 500) and the data returned is the slice
\* of the sorted matches from offset (page - 1) * limit, at most limit long.
C7_LimitClamped ==
    (last.route \in ListRoutes /\ last.tag = "paged")
        => /\ last.limit \in 1..MaxLimit
           /\ last.arg = Absent => last.limit = DefaultLimit
           /\ last.arg = <<"5", "0", "0">> => last.limit = MaxLimit
           /\ last.skip = (PageOf(last.arg2) - 1) * last.limit
           /\ last.fault = "" =>
                last.data = SubSeq(last.matched, last.skip + 1,
                                   Min(Len(last.matched), last.skip + last.limit))

C9_ListenAfterConnect ==
    /\ proc = "listening" => db = "connected"
    /\ (last # NoLast \/ inflight # EmptyBag) => db = "connected"
    /\ db = "failed" => (proc = "exited" /\ exitCode = 1)

\* C9 witness: the connection failed and the process exited with code 1.
C9_Witness == db = "failed" /\ proc = "exited" /\ exitCode = 1 /\ last = NoLast

\* C10: every completed request, whatever its path through the middleware
\* chain, was sent exactly one response, and a request still waiting for the
\* store has been sent none.
C10_AnsweredOnce ==
    /\ last.route # "none" => Len(last.sent) = 1
    /\ \A c \in BagToSet(inflight) : c.sent = <<>>

\* C10 witness: a store fault in POST /api/candidates was answered once.
C10_Witness ==
    /\ last.route = "createCandidate" /\ last.fault = "ValidationError"
    /\ Len(last.sent) = 1

====
